---------------------------- MODULE Spec2Model ----------------------------
(***************************************************************************)
(* A model of unsegen_terminal: the dual-screen terminal window            *)
(* (src/src/terminalwindow.rs), the widget facade (src/src/lib.rs) and the *)
(* pty bridge with its reader task (src/src/pty/mod.rs, src/src/lib.rs).   *)
(*                                                                         *)
(* Two specifications share the module.  Spec drives the DualWindow with   *)
(* handler operations, scroll operations and Widget::draw.  SpecPty drives *)
(* Terminal::new, the reader thread, the host's writes/resizes and the     *)
(* drop of the widget over the shared master fd.                           *)
(***************************************************************************)
EXTENDS Integers, Sequences, FiniteSets, TLC

VARIABLES
    main,        \* DualWindow.main      : TerminalWindow
    alternate,   \* DualWindow.alternate : TerminalWindow
    mode,        \* DualWindow.mode      : "Main" | "Alternate"
    last,        \* the operation executed last on the widget and its outcome
    steps,       \* number of operations executed so far
    pty,         \* the master fd, the two handles on it and their mutex
    host,        \* the host thread: Terminal::new, writes, resizes, drop
    rd,          \* the reader thread running read_slave_input_loop
    env,         \* the kernel's and the child's side of the pty
    sink,        \* the chunks handed to SlaveInputSink, in order
    probe        \* a LineBuffer on its own and the last cell lookup in it

screenVars == <<main, alternate, mode, last, steps>>
ptyVars == <<pty, host, rd, env, sink>>
vars == <<screenVars, ptyVars, probe>>

---------------------------------------------------------------------------
(* Bounds of the model.                                                    *)

MaxSteps == 4          \* operations per behaviour of Spec
MaxW == 2              \* largest ordinary window width drawn into
MaxH == 2              \* largest window height drawn into
MaxLine == 1           \* goto uses lines 0 and MaxLine
MaxCol == 1            \* goto uses columns 0 and MaxCol
MaxWrites == 2         \* writes of the child to the slave
MaxSink == 3           \* chunks the sink takes
MaxHostOps == 2        \* writes and resizes of the host thread
MaxChildOpens == 2     \* times the child opens the slave
MaxCell == 1           \* cell lookups use columns and rows -1..MaxCell

(* Program constants. *)
U16 == 65536           \* `as u16` keeps a value modulo 2^16
ScrollStep == 1        \* TerminalWindow::new: scroll_step
ReadBufLen == 1024     \* read_slave_input_loop: let mut buffer = [0; 1024]

None == -1             \* Option::None of scrollback_position

Chars == {"a", "b"}    \* printable characters fed to input

Max(a, b) == IF a >= b THEN a ELSE b
Min(a, b) == IF a <= b THEN a ELSE b

---------------------------------------------------------------------------
(* Cells, styles and lines.                                                *)

DefaultStyle == [inv |-> FALSE, ul |-> FALSE, bold |-> FALSE]

\* StyledGraphemeCluster::default(): a blank with the default style
DefaultCell == [g |-> " ", style |-> DefaultStyle]

\* StyleModifier::new(): every attribute left as it is
NoModifier == [inv |-> "none", bold |-> "none"]

\* The style a cursor writes with: its modifier applied to the buffer's
\* default style.
ActiveStyle(m) ==
    [inv  |-> IF m.inv = "none" THEN DefaultStyle.inv ELSE m.inv = "yes",
     ul   |-> DefaultStyle.ul,
     bold |-> IF m.bold = "none" THEN DefaultStyle.bold ELSE m.bold = "yes"]

\* Line::height_for_width
height_for_width(len, width) ==
    IF width = 0 THEN 1
    ELSE (IF len >= 1 THEN len - 1 ELSE 0) \div width + 1

RECURSIVE SumHeights(_, _, _)
\* sum of height_for_width over lines[from..] (from is 1-based)
SumHeights(lines, from, width) ==
    IF from > Len(lines) THEN 0
    ELSE height_for_width(Len(lines[from]), width)
         + SumHeights(lines, from + 1, width)

\* LineBuffer::height_as_displayed (buffer.window_width = window_width)
height_as_displayed(t) == SumHeights(t.lines, 1, t.window_width)

Repeat(x, n) == [i \in 1..n |-> x]

\* Line::get_cell_mut: grow horizontally to position x
GrowLine(line, x) ==
    IF x < 0 THEN line
    ELSE line \o Repeat(DefaultCell, Max(0, x + 1 - Len(line)))

\* LineBuffer::get_cell_mut: grow vertically to row y, then the row to x
GrowFor(lines, x, y) ==
    IF y < 0 THEN lines
    ELSE LET grown == lines \o Repeat(<<>>, Max(0, y + 1 - Len(lines)))
         IN  [grown EXCEPT ![y + 1] = GrowLine(@, x)]

\* whether get_cell_mut returns Some
HasCell(x, y) == x >= 0 /\ y >= 0

\* the buffer after `*get_cell_mut(x, y) = cell`
PutCell(lines, x, y, cell) ==
    IF HasCell(x, y)
    THEN [GrowFor(lines, x, y) EXCEPT ![y + 1][x + 1] = cell]
    ELSE GrowFor(lines, x, y)

---------------------------------------------------------------------------
(* TerminalWindow and DualWindow.                                          *)

\* TerminalWindow::new
NewTerminalWindow ==
    [window_width |-> 0, window_height |-> 0, lines |-> <<>>,
     cx |-> 0, cy |-> 0, smod |-> NoModifier,
     scrollback_position |-> None,
     cursor_style |-> "Block", show_cursor |-> TRUE]

\* Deref for DualWindow
Active == IF mode = "Main" THEN main ELSE alternate

\* a DerefMut that hands out the main screen whatever the mode
SetActiveAlwaysMain(t) == main' = t /\ UNCHANGED alternate

\* DerefMut for DualWindow: a write through the active screen
SetActive(t) ==
    IF mode = "Main"
    THEN main' = t /\ UNCHANGED alternate
    ELSE alternate' = t /\ UNCHANGED main

\* some cell of screen t holds a printable character
HoldsPrintable(t) ==
    \E i \in 1..Len(t.lines) :
        \E k \in 1..Len(t.lines[i]) : t.lines[i][k].g \in Chars

\* TerminalWindow::current_scrollback_pos
current_scrollback_pos(t) ==
    IF t.scrollback_position = None THEN height_as_displayed(t)
    ELSE t.scrollback_position

\* TerminalWindow::set_width (also LineBuffer::set_window_width)
set_width(t, w) == [t EXCEPT !.window_width = w]

\* TerminalWindow::set_height
set_height(t, h) == [t EXCEPT !.window_height = h]

\* a mapping that counts the line from the top of the buffer
line_to_buffer_pos_y_from_top(t, line) == line

\* TerminalWindow::line_to_buffer_pos_y
line_to_buffer_pos_y(t, line) ==
    Max(0, Len(t.lines) - t.window_height) + line

\* TerminalWindow::col_to_buffer_pos_x
col_to_buffer_pos_x(t, col) == col

NoIoctl == <<>>

\* no byte written to the pty master
NoBytes == <<>>

\* no scroll call directly before the operation
NoScroll == ""

\* an operation whose arguments are not recorded
NoArgs == <<>>

\* the record of an operation that is no draw and writes nothing to the pty
Did(op, res) ==
    [op |-> op, res |-> res, ioctl |-> NoIoctl, ioctl_ok |-> TRUE,
     cells |-> {}, w |-> 0, h |-> 0, written |-> NoBytes,
     after |-> NoScroll, args |-> NoArgs]

Panicked == last.res = "panic"
CanStep == ~Panicked /\ steps < MaxSteps
Step == steps' = steps + 1 /\ UNCHANGED <<ptyVars, probe>>

---------------------------------------------------------------------------
(* The cursor over the line buffer (with_cursor: the cursor state is moved *)
(* into a Cursor over the buffer and back).  The buffer is unbounded in    *)
(* both directions and the cursor state's wrapping mode is NoWrap, so a    *)
(* write never wraps inside the buffer.                                    *)

\* a write that takes the viewport back to the tail of the buffer
cursor_write_to_tail(t, g) ==
    [t EXCEPT !.lines = IF HasCell(t.cx, t.cy)
                        THEN PutCell(@, t.cx, t.cy,
                                     [g |-> g, style |-> ActiveStyle(t.smod)])
                        ELSE @,
              !.cx = @ + 1,
              !.scrollback_position = None]

\* Cursor::write of one grapheme: store it with the active style where the
\* cursor is (growing the buffer), then advance one column
cursor_write(t, g) ==
    [t EXCEPT !.lines = IF HasCell(t.cx, t.cy)
                        THEN PutCell(@, t.cx, t.cy,
                                     [g |-> g, style |-> ActiveStyle(t.smod)])
                        ELSE @,
              !.cx = @ + 1]

\* Cursor::wrap_line: next row, column back to the start of the line
wrap_line(t) == [t EXCEPT !.cy = @ + 1, !.cx = 0]

\* Cursor::move_by
move_by(t, dx, dy) == [t EXCEPT !.cx = @ + dx, !.cy = @ + dy]

\* Cursor::move_to
move_to(t, x, y) == [t EXCEPT !.cx = x, !.cy = y]

---------------------------------------------------------------------------
(* impl Handler for DualWindow: each operation on the active screen.       *)

\* an input that advances the cursor without storing the character
input_without_store(t, c) == move_by(t, 1, 0)

\* DualWindow::input
input(t, c) == cursor_write(t, c)

\* DualWindow::goto
goto(t, line, col) ==
    move_to(t, col_to_buffer_pos_x(t, col), line_to_buffer_pos_y(t, line))

\* DualWindow::goto_line: cursor.move_to_y
goto_line(t, line) == [t EXCEPT !.cy = line_to_buffer_pos_y(t, line)]

\* DualWindow::goto_col: cursor.move_to_x
goto_col(t, col) == [t EXCEPT !.cx = col_to_buffer_pos_x(t, col)]

\* DualWindow::move_up
move_up(t, n) == move_by(t, 0, -n)

\* DualWindow::carriage_return
carriage_return(t) == [t EXCEPT !.cx = 0]

\* a linefeed that goes down one row in the column the cursor is in
linefeed_keeping_column(t) ==
    move_by(cursor_write(move_by(t, 0, 1), " "), -1, 0)

\* DualWindow::linefeed: cursor.write("\n ") then move_by(-1, 0)
linefeed(t) == move_by(cursor_write(wrap_line(t), " "), -1, 0)

\* a clear that removes the lines of the range instead of emptying them
ClearLinesRemoving(lines, from, to) ==
    SubSeq(lines, 1, from) \o SubSeq(lines, to + 1, Len(lines))

\* Line::clear on every line of lines[from+1 .. to] (0-based from..to)
ClearLines(lines, from, to) ==
    [i \in 1..Len(lines) |-> IF from < i /\ i <= to THEN <<>> ELSE lines[i]]

\* DualWindow::clear_screen(ClearMode::All)
clear_screen_all(t) ==
    [t EXCEPT !.lines =
        ClearLines(@, Max(0, Len(@) - t.window_height), Len(@))]

RECURSIVE BlankRange(_, _, _, _, _)
\* Cursor::clear_line_in_range: the clear cluster written with the active
\* style into the columns from .. to-1 of row y, one cell after the other
BlankRange(lines, y, from, to, cell) ==
    IF from >= to THEN lines
    ELSE BlankRange(PutCell(lines, from, y, cell), y, from + 1, to, cell)

\* the clear cluster in the style the cursor writes with
ClearCell(t) == [g |-> " ", style |-> ActiveStyle(t.smod)]

\* DualWindow::clear_line(Left): Cursor::clear_line_left, the columns
\* before the cursor; the cursor stays where it is
clear_line_left(t) ==
    [t EXCEPT !.lines = BlankRange(@, t.cy, 0, t.cx, ClearCell(t))]

\* DualWindow::clear_line(Right): Cursor::clear_line_right, the columns
\* from the cursor to the soft width of the buffer, which is the stored
\* window width; the cursor stays where it is
clear_line_right(t) ==
    [t EXCEPT !.lines =
        BlankRange(@, t.cy, t.cx, t.window_width, ClearCell(t))]

\* i32::clamp
Clamp(v, lo, hi) == IF v < lo THEN lo ELSE IF v > hi THEN hi ELSE v

\* DualWindow::clear_screen(ClearMode::Below)
clear_screen_below(t) ==
    LET cleared == clear_line_right(t)
        range_end == Len(cleared.lines)
        range_start == Clamp(cleared.cy + 1, 0, range_end)
    IN  [cleared EXCEPT !.lines = ClearLines(@, range_start, range_end)]

\* DualWindow::clear_screen(ClearMode::Above)
clear_screen_above(t) ==
    LET cleared == clear_line_left(t)
        range_start == Max(0, Len(cleared.lines) - t.window_height)
        range_end == Clamp(cleared.cy, range_start, Len(cleared.lines))
    IN  [cleared EXCEPT !.lines = ClearLines(@, range_start, range_end)]

\* DualWindow::clear_screen
clear_screen(t, clear_mode) ==
    CASE clear_mode = "All"   -> clear_screen_all(t)
      [] clear_mode = "Above" -> clear_screen_above(t)
      [] clear_mode = "Below" -> clear_screen_below(t)
      [] clear_mode = "Saved" -> t

\* a terminal_attribute that takes Attr::Dim for Attr::Bold
terminal_attribute_dim_is_bold(t, attr) ==
    CASE attr = "Reset"            -> [t EXCEPT !.smod = NoModifier]
      [] attr \in {"Bold", "Dim"}  -> [t EXCEPT !.smod.bold = "yes"]
      [] attr = "Reverse"          -> [t EXCEPT !.smod.inv = "yes"]
      [] OTHER                     -> t

\* DualWindow::terminal_attribute
terminal_attribute(t, attr) ==
    CASE attr = "Reset"   -> [t EXCEPT !.smod = NoModifier]
      [] attr = "Bold"    -> [t EXCEPT !.smod.bold = "yes"]
      [] attr = "Reverse" -> [t EXCEPT !.smod.inv = "yes"]
      [] OTHER            -> t

\* DualWindow::set_cursor_style
set_cursor_style(t, style) == [t EXCEPT !.cursor_style = style]

\* the attributes fed to terminal_attribute
Attrs == {"Reset", "Reverse"}
CursorStyles == {"Block", "Underline", "Beam"}

HandlerStep(op, t) == CanStep /\ SetActive(t) /\ Step
                      /\ last' = Did(op, "none") /\ UNCHANGED mode

Input == \E c \in Chars : HandlerStep("input", input(Active, c))

\* a handler step whose record keeps the arguments of the call
HandlerStepWith(op, args, t) ==
    /\ CanStep /\ SetActive(t) /\ Step
    /\ last' = [Did(op, "none") EXCEPT !.args = args] /\ UNCHANGED mode

Goto == \E line \in {0, MaxLine}, col \in {0, MaxCol} :
            HandlerStepWith("goto", <<line, col>>, goto(Active, line, col))

GotoLine == \E line \in {0, MaxLine} :
                HandlerStepWith("goto_line", <<line>>,
                                goto_line(Active, line))

GotoCol == \E col \in {0, MaxCol} :
               HandlerStepWith("goto_col", <<col>>, goto_col(Active, col))

MoveUp == HandlerStep("move_up", move_up(Active, 1))

CarriageReturn == HandlerStep("carriage_return", carriage_return(Active))

Linefeed == HandlerStep("linefeed", linefeed(Active))

ClearScreen == HandlerStep("clear_screen", clear_screen_all(Active))

ClearScreenAbove ==
    HandlerStep("clear_screen Above", clear_screen(Active, "Above"))

ClearScreenBelow ==
    HandlerStep("clear_screen Below", clear_screen(Active, "Below"))

TerminalAttribute ==
    \E attr \in Attrs :
        HandlerStep("terminal_attribute", terminal_attribute(Active, attr))

SetCursorStyle ==
    \E style \in CursorStyles :
        HandlerStep("set_cursor_style", set_cursor_style(Active, style))

\* the screen DualWindow::set_mode selects
set_mode_target == "Alternate"

\* the screen DualWindow::unset_mode selects
unset_mode_target == "Main"

\* what a switch of screens leaves behind: when it follows a draw, the
\* size of that draw's window stays on record
Switched(op) ==
    IF last.op = "draw"
    THEN [Did(op, "none") EXCEPT !.after = "draw", !.w = last.w,
                                 !.h = last.h]
    ELSE Did(op, "none")

\* DualWindow::set_mode
SetMode ==
    /\ CanStep /\ Step
    /\ \/ /\ SetActive([Active EXCEPT !.show_cursor = TRUE])
          /\ UNCHANGED mode
          /\ last' = Did("set_mode ShowCursor", "none")
       \/ /\ mode' = set_mode_target
          /\ UNCHANGED <<main, alternate>>
          /\ last' = Switched("set_mode SwapScreen")

\* DualWindow::unset_mode
UnsetMode ==
    /\ CanStep /\ Step
    /\ \/ /\ SetActive([Active EXCEPT !.show_cursor = FALSE])
          /\ UNCHANGED mode
          /\ last' = Did("unset_mode ShowCursor", "none")
       \/ /\ mode' = unset_mode_target
          /\ UNCHANGED <<main, alternate>>
          /\ last' = Switched("unset_mode SwapScreen")

---------------------------------------------------------------------------
(* impl Scrollable for DualWindow.  Each operator gives the screen after   *)
(* the call and the OperationResult.                                       *)

\* a scroll_forwards that still accepts a candidate equal to the height
scroll_forwards_inclusive(t) ==
    LET current == current_scrollback_pos(t)
        candidate == current + ScrollStep
        pos == IF candidate <= height_as_displayed(t) THEN candidate ELSE None
    IN  [t |-> [t EXCEPT !.scrollback_position = pos],
         res |-> IF pos # None THEN "Ok" ELSE "Err"]

\* DualWindow::scroll_forwards
scroll_forwards(t) ==
    LET current == current_scrollback_pos(t)
        candidate == current + ScrollStep
        pos == IF candidate < height_as_displayed(t) THEN candidate ELSE None
    IN  [t |-> [t EXCEPT !.scrollback_position = pos],
         res |-> IF pos # None THEN "Ok" ELSE "Err"]

\* DualWindow::scroll_backwards
scroll_backwards(t) ==
    LET current == current_scrollback_pos(t)
    IN  IF current > t.window_height
        THEN [t |-> [t EXCEPT !.scrollback_position =
                                  Max(0, current - ScrollStep)],
              res |-> "Ok"]
        ELSE [t |-> t, res |-> "Err"]

\* a scroll_to_beginning that takes row 0 for the top of the buffer
scroll_to_beginning_at_zero(t) ==
    LET current == current_scrollback_pos(t)
    IN  IF current > t.window_height
        THEN [t |-> [t EXCEPT !.scrollback_position = 0], res |-> "Ok"]
        ELSE [t |-> t, res |-> "Err"]

\* DualWindow::scroll_to_beginning
scroll_to_beginning(t) ==
    LET current == current_scrollback_pos(t)
    IN  IF current > t.window_height
        THEN [t |-> [t EXCEPT !.scrollback_position = t.window_height],
              res |-> "Ok"]
        ELSE [t |-> t, res |-> "Err"]

\* a scroll_to_end that reports the move and keeps the offset
scroll_to_end_keeping_offset(t) ==
    [t |-> t, res |-> IF t.scrollback_position # None THEN "Ok" ELSE "Err"]

\* DualWindow::scroll_to_end
scroll_to_end(t) ==
    IF t.scrollback_position # None
    THEN [t |-> [t EXCEPT !.scrollback_position = None], res |-> "Ok"]
    ELSE [t |-> t, res |-> "Err"]

ScrollOps == {"scroll_forwards", "scroll_backwards",
              "scroll_to_beginning", "scroll_to_end"}

\* a scroll call; its record names the scroll call it directly follows
ScrollStepOf(op, r) ==
    /\ CanStep /\ SetActive(r.t) /\ Step
    /\ last' = [Did(op, r.res) EXCEPT
                   !.after = IF last.op \in ScrollOps THEN last.op
                             ELSE NoScroll]
    /\ UNCHANGED mode

ScrollForwards == ScrollStepOf("scroll_forwards", scroll_forwards(Active))

ScrollBackwards == ScrollStepOf("scroll_backwards", scroll_backwards(Active))

ScrollToBeginning ==
    ScrollStepOf("scroll_to_beginning", scroll_to_beginning(Active))

ScrollToEnd == ScrollStepOf("scroll_to_end", scroll_to_end(Active))

---------------------------------------------------------------------------
(* TerminalWindow::draw and Widget::draw for Terminal.                     *)

\* the attribute the cursor-style modifier of draw toggles
cursor_style_mod(style) == IF style = "Block" THEN "inv" ELSE "ul"

ToggleStyle(st, which) ==
    IF which = "inv" THEN [st EXCEPT !.inv = ~@] ELSE [st EXCEPT !.ul = ~@]

\* draw's with_cursor block: cursor_style_mod.modify on the cell under the
\* cursor, which get_current_cell_mut creates when it does not exist yet
toggle_cursor_cell(t) ==
    LET grown == GrowFor(t.lines, t.cx, t.cy)
    IN  [t EXCEPT !.lines =
            IF HasCell(t.cx, t.cy)
            THEN [grown EXCEPT ![t.cy + 1][t.cx + 1].style =
                      ToggleStyle(@, cursor_style_mod(t.cursor_style))]
            ELSE grown]

\* first line drawn: lines.len().checked_sub(minimum_y_start as usize)
start_line(t, minimum_y_start) ==
    IF minimum_y_start < 0 \/ minimum_y_start > Len(t.lines) THEN 0
    ELSE Len(t.lines) - minimum_y_start

\* the cells the window cursor (WrappingMode::Wrap) writes, row by row,
\* from line `from` (1-based) whose first displayed row is window row y
RECURSIVE write_lines(_, _, _, _, _)
write_lines(lines, from, y, width, height) ==
    IF from > Len(lines) THEN {}
    ELSE { [r |-> y + (k - 1) \div width, c |-> (k - 1) % width,
            cell |-> lines[from][k]] :
              k \in { j \in 1..Len(lines[from]) :
                        /\ y + (j - 1) \div width >= 0
                        /\ y + (j - 1) \div width < height } }
         \cup write_lines(lines, from + 1,
                          y + height_for_width(Len(lines[from]), width),
                          width, height)

\* a draw that lets the buffer's last row end in the window's last row
\* even when the buffer is shorter than the window
render_bottom_aligned(t, width, height) ==
    LET scrollback_offset ==
            -(current_scrollback_pos(t) - height_as_displayed(t))
        minimum_y_start == scrollback_offset + height
        first == start_line(t, minimum_y_start)
        y_start == minimum_y_start - SumHeights(t.lines, first + 1, width)
    IN  write_lines(t.lines, first + 1, y_start, width, height)

\* the cells draw writes into a window of width x height (both > 0)
render(t, width, height) ==
    LET scrollback_offset ==
            -(current_scrollback_pos(t) - height_as_displayed(t))
        minimum_y_start == scrollback_offset + height
        first == start_line(t, minimum_y_start)
        y_start == Min(0, minimum_y_start
                          - SumHeights(t.lines, first + 1, width))
    IN  write_lines(t.lines, first + 1, y_start, width, height)

\* TerminalWindow::draw: the screen after the call and the cells written
tw_draw(t, width, height) ==
    LET shown == IF t.show_cursor THEN toggle_cursor_cell(t) ELSE t
    IN  IF height = 0 \/ width = 0 \/ shown.lines = <<>>
        THEN [t |-> shown, cells |-> {}]
        ELSE [t |-> IF t.show_cursor THEN toggle_cursor_cell(shown)
                    ELSE shown,
              cells |-> render(shown, width, height)]

\* `as u16`
AsU16(v) == v % U16

\* the winsize PTYInput::resize hands to ioctl(TIOCSWINSZ)
winsize(w, h, wpixel, hpixel) ==
    [ws_row |-> h, ws_col |-> w, ws_xpixel |-> wpixel, ws_ypixel |-> hpixel]

\* an ensure_size that compares the widths only
size_differs_width_only(t, w, h) == w # t.window_width

\* Terminal::ensure_size: whether the stored size differs
size_differs(t, w, h) == w # t.window_width \/ h # t.window_height

\* Terminal::ensure_size: the ioctls it issues
ensure_size_ioctls(t, w, h) ==
    IF size_differs(t, w, h)
    THEN <<winsize(AsU16(w), AsU16(h), AsU16(w), AsU16(h))>>
    ELSE <<>>

\* Terminal::ensure_size: the screen with the size stored
ensure_size(t, w, h) ==
    IF size_differs(t, w, h) THEN set_height(set_width(t, w), h) ELSE t

\* the window sizes drawn into: empty, one cell, the largest, and a width
\* that does not fit 16 bits
WinWidths == {0, 1, MaxW, U16 + 1}
WinHeights == {0, 1, MaxH}

\* Widget::draw for Terminal; ioctl_ok is the outcome of the window-size
\* ioctl, on whose failure `expect("Resize pty")` panics
Draw ==
    \E w \in WinWidths, h \in WinHeights, ioctl_ok \in BOOLEAN :
        LET sized == ensure_size(Active, w, h)
            ioctls == ensure_size_ioctls(Active, w, h)
            drawn == tw_draw(sized, w, h)
        IN  /\ CanStep /\ Step /\ UNCHANGED mode
            /\ (ioctls = <<>> => ioctl_ok)
            /\ IF ioctl_ok
               THEN /\ SetActive(drawn.t)
                    /\ last' = [op |-> "draw", res |-> "returned",
                                ioctl |-> ioctls, ioctl_ok |-> TRUE,
                                cells |-> drawn.cells, w |-> w, h |-> h,
                                written |-> NoBytes, after |-> NoScroll,
                                args |-> NoArgs]
               ELSE /\ SetActive(sized)
                    /\ last' = [op |-> "draw", res |-> "panic",
                                ioctl |-> ioctls, ioctl_ok |-> FALSE,
                                cells |-> {}, w |-> w, h |-> h,
                                written |-> NoBytes, after |-> NoScroll,
                                args |-> NoArgs]

---------------------------------------------------------------------------
(* The specification of the widget's screen.                               *)

\* DualWindow::new
ScreenInit ==
    /\ main = NewTerminalWindow
    /\ alternate = NewTerminalWindow
    /\ mode = "Main"
    /\ last = Did("new", "none")
    /\ steps = 0

\* before Terminal::new has run: no fd, no handle, no thread
PtyInit ==
    /\ pty = [fd |-> "none", closes |-> 0, input |-> "none",
              output |-> "none", lock |-> "free", after_close |-> FALSE]
    /\ host = [pc |-> "new_open", widget |-> "none", new_res |-> "pending",
               open_fail |-> "none", ioctl_ok |-> TRUE, ops |-> 0]
    /\ rd = [pc |-> "none", chunk |-> <<>>, ended |-> FALSE,
             read_after_end |-> FALSE, chunk_after_end |-> FALSE,
             reads |-> <<>>]
    /\ env = [kbuf |-> <<>>, slaves |-> {}, hup |-> FALSE,
              eof |-> "EIO", written |-> 0, writes |-> 0, opens |-> 0,
              late |-> FALSE]
    /\ sink = <<>>

\* LineBuffer::new, no lookup made yet
ProbeInit ==
    probe = [lines |-> <<>>, op |-> "new", x |-> 0, y |-> 0,
             res |-> "none", cell |-> DefaultCell]

Init == ScreenInit /\ PtyInit /\ ProbeInit

Next ==
    \/ Input \/ Goto \/ MoveUp \/ CarriageReturn \/ Linefeed
    \/ ClearScreen \/ TerminalAttribute \/ SetCursorStyle
    \/ SetMode \/ UnsetMode
    \/ ScrollForwards \/ ScrollBackwards \/ ScrollToBeginning \/ ScrollToEnd
    \/ Draw

Spec == Init /\ [][Next]_vars

---------------------------------------------------------------------------
(* The pty bridge: one master fd inside Arc<Mutex<PTY>>, a PTYInput held   *)
(* by the widget and a PTYOutput held by the reader thread.                *)

PtyFrame == UNCHANGED <<screenVars, probe>>

\* a sharing in which every handle closes the fd when it is released
drops_pty_always(p) == TRUE

\* Arc<Mutex<PTY>>: the PTY is dropped when no handle holds it any more
drops_pty(p) == p.input # "held" /\ p.output # "held"

\* Drop for PTY: libc::close(fd)
close_fd(p) == [p EXCEPT !.fd = "closed", !.closes = @ + 1]

\* drop of PTYInput (the widget's handle)
release_input(p) ==
    LET q == [p EXCEPT !.input = "released"]
    IN  IF drops_pty(q) THEN close_fd(q) ELSE q

\* drop of PTYOutput (the reader's handle)
release_output(p) ==
    LET q == [p EXCEPT !.output = "released"]
    IN  IF drops_pty(q) THEN close_fd(q) ELSE q

\* a read, write or ioctl on the fd: remembers a use of a closed fd
syscall(p) == [p EXCEPT !.after_close = @ \/ p.fd # "open"]

OpenFailures == {"none", "posix_openpt", "grantpt", "unlockpt"}
EofKinds == {"EIO", "zero"}

\* Terminal::new up to split_io: PTY::open().expect("Could not create
\* pty."), where open_ptm fails at `fail` (or at nothing), then split_io
NewOpen ==
    \E fail \in OpenFailures, eof \in EofKinds :
        /\ host.pc = "new_open"
        /\ (fail # "none" => eof = "EIO")
        /\ env' = [env EXCEPT !.eof = eof]
        /\ IF fail = "none"
           THEN /\ pty' = [pty EXCEPT !.fd = "open", !.input = "held",
                                      !.output = "held"]
                /\ host' = [host EXCEPT !.pc = "new_spawn"]
           ELSE /\ pty' = [pty EXCEPT !.fd = IF fail = "posix_openpt"
                                             THEN "none" ELSE "open"]
                /\ host' = [host EXCEPT !.pc = "panicked",
                                        !.new_res = "panic",
                                        !.open_fail = fail]
        /\ UNCHANGED <<rd, sink>> /\ PtyFrame

\* Terminal::new: thread::Builder::spawn(..)? of the reader thread
NewSpawn ==
    \E ok \in BOOLEAN :
        /\ host.pc = "new_spawn"
        /\ IF ok
           THEN /\ rd' = [rd EXCEPT !.pc = "acquire"]
                /\ host' = [host EXCEPT !.pc = "new_slave"]
                /\ UNCHANGED pty
           ELSE /\ pty' = release_input(release_output(pty))
                /\ host' = [host EXCEPT !.pc = "returned",
                                        !.new_res = "err"]
                /\ UNCHANGED rd
        /\ UNCHANGED <<env, sink>> /\ PtyFrame

\* Terminal::new: OpenOptions::open(&ptsname)? and Ok(Terminal {..})
NewSlave ==
    \E ok \in BOOLEAN :
        /\ host.pc = "new_slave"
        /\ IF ok
           THEN /\ env' = [env EXCEPT !.slaves = @ \cup {"widget"},
                                      !.hup = FALSE]
                /\ host' = [host EXCEPT !.pc = "idle", !.widget = "alive",
                                        !.new_res = "ok"]
                /\ UNCHANGED pty
           ELSE /\ pty' = release_input(pty)
                /\ host' = [host EXCEPT !.pc = "returned",
                                        !.new_res = "err"]
                /\ UNCHANGED env
        /\ UNCHANGED <<rd, sink>> /\ PtyFrame

HostIdle == host.widget = "alive" /\ host.pc = "idle"

\* a lock() that lets its caller through without taking the mutex
lock_not_taken(p, who) == p

\* self.pty.lock(): the mutex is taken by `who`
lock(p, who) == [p EXCEPT !.lock = who]

\* a guard that is kept after the statement that took it
guard_kept(p) == p

\* the MutexGuard is dropped: at the end of `let fd = ..lock()..fd;` in
\* read and write, at the end of the block around the ioctl in resize
drop_guard(p) == [p EXCEPT !.lock = "free"]

\* PTYInput::write, PTYInput::resize: self.pty.lock()
HostLock ==
    \E op \in {"write", "resize"} :
        /\ HostIdle /\ host.ops < MaxHostOps
        /\ pty.lock = "free"
        /\ pty' = lock(pty, "host")
        /\ host' = [host EXCEPT !.pc = op \o "_locked", !.ops = @ + 1]
        /\ UNCHANGED <<rd, env, sink>> /\ PtyFrame

\* PTYInput::write: the guard is dropped once the fd has been copied
WriteUnlock ==
    /\ host.pc = "write_locked"
    /\ pty' = drop_guard(pty)
    /\ host' = [host EXCEPT !.pc = "write_sys"]
    /\ UNCHANGED <<rd, env, sink>> /\ PtyFrame

\* write(fd, buf) and the caller's expect("Write to terminal")
WriteSys ==
    \E ok \in BOOLEAN :
        /\ host.pc = "write_sys"
        /\ pty' = syscall(pty)
        /\ host' = [host EXCEPT !.pc = IF ok THEN "idle" ELSE "panicked"]
        /\ UNCHANGED <<rd, env, sink>> /\ PtyFrame

\* PTYInput::resize: libc::ioctl(lock.fd, TIOCSWINSZ, ..) under the guard
ResizeIoctl ==
    \E ok \in BOOLEAN :
        /\ host.pc = "resize_locked"
        /\ pty' = syscall(pty)
        /\ host' = [host EXCEPT !.pc = "resize_unlock", !.ioctl_ok = ok]
        /\ UNCHANGED <<rd, env, sink>> /\ PtyFrame

\* PTYInput::resize: the guard is dropped; ensure_size: expect("Resize pty")
ResizeUnlock ==
    /\ host.pc = "resize_unlock"
    /\ pty' = drop_guard(pty)
    /\ host' = [host EXCEPT !.pc = IF host.ioctl_ok THEN "idle"
                                   ELSE "panicked",
                            !.ioctl_ok = TRUE]
    /\ UNCHANGED <<rd, env, sink>> /\ PtyFrame

\* the last slave descriptor is closed: the master side sees a hangup
CloseSlave(e, who) ==
    [e EXCEPT !.slaves = @ \ {who},
              !.hup = @ \/ (e.slaves # {} /\ e.slaves \ {who} = {})]

\* drop of the Terminal: master_input_sink, then _slave_handle
DropWidget ==
    /\ host.widget = "alive" /\ host.pc \in {"idle", "panicked"}
    /\ pty' = release_input(pty)
    /\ env' = CloseSlave(env, "widget")
    /\ host' = [host EXCEPT !.widget = "dropped"]
    /\ UNCHANGED <<rd, sink>> /\ PtyFrame

---------------------------------------------------------------------------
(* read_slave_input_loop on the reader thread.                             *)

\* PTYOutput::read: self.pty.lock()
RdLock ==
    /\ rd.pc = "acquire" /\ pty.lock = "free"
    /\ pty' = lock(pty, "reader")
    /\ rd' = [rd EXCEPT !.pc = "locked"]
    /\ UNCHANGED <<host, env, sink>> /\ PtyFrame

\* PTYOutput::read: the guard is dropped once the fd has been copied, and
\* read(fd, buf) is entered
RdUnlock ==
    /\ rd.pc = "locked"
    /\ pty' = syscall(drop_guard(pty))
    /\ rd' = [rd EXCEPT !.pc = "read", !.read_after_end = @ \/ rd.ended]
    /\ UNCHANGED <<host, env, sink>> /\ PtyFrame

\* the master has nothing to read and no slave descriptor is open
Hangup == env.kbuf = <<>> /\ env.hup /\ env.slaves = {}

\* whether the blocking read can return
ReadCanReturn == env.kbuf # <<>> \/ Hangup

\* a copy that leaves out the last byte read
TakeAllButLast(q, n) == SubSeq(q, 1, n - 1)

\* bytes.copy_from_slice(&mut buffer[..n])
Take(q, n) == SubSeq(q, 1, n)

Drop(q, n) == SubSeq(q, n + 1, Len(q))

\* the sizes a read of `avail` waiting bytes can return: one byte, or as
\* many as are waiting and fit the buffer
ReadSizes(avail) ==
    {n \in {1, Min(avail, ReadBufLen)} : n >= 1 /\ n <= avail}

\* `while let Ok(n) = reader.read(..)`: the loop goes on at every Ok(n)
loop_continues(n) == TRUE

\* libc::read returns n > 0 bytes: Ok(n)
RdReadData ==
    \E n \in ReadSizes(Len(env.kbuf)) :
        /\ rd.pc = "read"
        /\ env' = [env EXCEPT !.kbuf = Drop(@, n)]
        /\ rd' = [rd EXCEPT !.pc = "deliver", !.chunk = Take(env.kbuf, n),
                            !.reads = Append(@, SubSeq(env.kbuf, 1, n))]
        /\ UNCHANGED <<pty, host, sink>> /\ PtyFrame

\* libc::read returns 0 at a hangup (no EIO on this platform): Ok(0)
RdReadZero ==
    /\ rd.pc = "read" /\ Hangup /\ env.eof = "zero"
    /\ IF loop_continues(0)
       THEN rd' = [rd EXCEPT !.pc = "deliver", !.chunk = <<>>,
                             !.ended = TRUE,
                             !.reads = Append(@, <<>>)] /\ UNCHANGED pty
       ELSE rd' = [rd EXCEPT !.pc = "done", !.ended = TRUE]
            /\ pty' = release_output(pty)
    /\ UNCHANGED <<host, env, sink>> /\ PtyFrame

\* libc::read fails (EIO at a hangup): Err ends the loop, and the sink and
\* the PTYOutput are dropped with the thread's closure
RdReadErr ==
    /\ rd.pc = "read" /\ Hangup /\ env.eof = "EIO"
    /\ rd' = [rd EXCEPT !.pc = "done", !.ended = TRUE]
    /\ pty' = release_output(pty)
    /\ UNCHANGED <<host, env, sink>> /\ PtyFrame

\* sink.receive_bytes_from_pty(bytes.into_boxed_slice())
RdDeliver ==
    /\ rd.pc = "deliver" /\ Len(sink) < MaxSink
    /\ sink' = Append(sink, rd.chunk)
    /\ rd' = [rd EXCEPT !.pc = "acquire", !.chunk = <<>>,
                        !.chunk_after_end = @ \/ rd.ended]
    /\ UNCHANGED <<pty, host, env>> /\ PtyFrame

---------------------------------------------------------------------------
(* The child process on the slave side.                                    *)

\* remembers an action of the child after the widget was dropped
ChildActs(e) == [e EXCEPT !.late = @ \/ host.widget = "dropped"]

\* the child opens the slave device, whose name it has from slave_name()
\* (the device exists while the master is open)
ChildOpen ==
    /\ host.widget # "none"
    /\ pty.fd = "open" /\ "child" \notin env.slaves
    /\ env.opens < MaxChildOpens
    /\ env' = ChildActs([env EXCEPT !.slaves = @ \cup {"child"},
                                    !.hup = FALSE, !.opens = @ + 1])
    /\ UNCHANGED <<pty, host, rd, sink>> /\ PtyFrame

\* the child writes k bytes to the slave; the bytes are numbered in the
\* order in which they are written
ChildWriteBytes(k) ==
    /\ "child" \in env.slaves /\ env.writes < MaxWrites
    /\ env' = ChildActs(
          [env EXCEPT !.kbuf = @ \o [i \in 1..k |-> env.written + i],
                      !.written = @ + k,
                      !.writes = @ + 1])
    /\ UNCHANGED <<pty, host, rd, sink>> /\ PtyFrame

\* the child writes a byte to the slave
ChildWrite == ChildWriteBytes(1)

\* the child starts with a write larger than one read of the reader takes
BurstLen == ReadBufLen + 1

ChildWriteBurst == env.writes = 0 /\ ChildWriteBytes(BurstLen)

\* the child closes the slave (or exits)
ChildClose ==
    /\ "child" \in env.slaves
    /\ env' = ChildActs(CloseSlave(env, "child"))
    /\ UNCHANGED <<pty, host, rd, sink>> /\ PtyFrame

PtyNext ==
    \/ NewOpen \/ NewSpawn \/ NewSlave
    \/ HostLock \/ WriteUnlock \/ WriteSys \/ ResizeIoctl \/ ResizeUnlock
    \/ DropWidget
    \/ RdLock \/ RdUnlock \/ RdReadData \/ RdReadZero \/ RdReadErr
    \/ RdDeliver
    \/ ChildOpen \/ ChildWrite \/ ChildClose

SpecPty == Init /\ [][PtyNext]_vars

\* the pseudoterminal with a child that also writes in bursts
BurstNext == PtyNext \/ ChildWriteBurst

SpecBurst == Init /\ [][BurstNext]_vars

---------------------------------------------------------------------------
(* The handlers of impl Handler for DualWindow that are not implemented:   *)
(* their body is a warn!(..), or a match arm that is one.                  *)

WarnOnlyHandlers ==
    {"insert_blank", "insert_blank_lines", "delete_lines", "erase_chars",
     "delete_chars", "scroll_up", "scroll_down", "set_horizontal_tabstop",
     "clear_tabs", "move_forward_tabs", "move_backward_tabs",
     "save_cursor_position", "restore_cursor_position", "newline",
     "reset_state", "reverse_index", "set_scrolling_region",
     "set_keypad_application_mode", "unset_keypad_application_mode",
     "set_active_charset", "configure_charset", "set_color",
     "device_status", "identify_terminal", "dectest", "substitute"}

\* the attributes whose arm of terminal_attribute is a warn!(..)
UnsupportedAttrs ==
    {"Dim", "BlinkSlow", "BlinkFast", "Hidden", "Strike",
     "CancelBlink", "CancelHidden", "CancelStrike"}

\* modes that take the `_` arm of set_mode and unset_mode
UnknownModes == {"CursorKeys", "Origin", "LineWrap", "BracketedPaste"}

AttrOp(attr) == "terminal_attribute " \o attr
ModeOp(which, m) == which \o " " \o m

InertOps ==
    WarnOnlyHandlers
    \cup {AttrOp(attr) : attr \in UnsupportedAttrs}
    \cup {"clear_screen Saved"}
    \cup {ModeOp(which, m) : which \in {"set_mode", "unset_mode"},
                             m \in UnknownModes}

\* a handler whose body is warn!("Unimplemented: ..") only; the writer
\* that identify_terminal and device_status are given is not used
warn_only(t) == t

\* one call of such a handler on the active screen.  It does not count
\* against MaxSteps: nothing it touches can grow.
InertStep(op, t) ==
    /\ ~Panicked /\ SetActive(t)
    /\ last' = Did(op, "none")
    /\ UNCHANGED <<mode, steps, ptyVars, probe>>

UnimplementedHandler ==
    \E handler \in WarnOnlyHandlers : InertStep(handler, warn_only(Active))

UnsupportedAttribute ==
    \E attr \in UnsupportedAttrs :
        InertStep(AttrOp(attr), terminal_attribute(Active, attr))

ClearScreenSaved ==
    InertStep("clear_screen Saved", clear_screen(Active, "Saved"))

\* set_mode / unset_mode with a mode of the `_` arm
UnknownMode ==
    \E which \in {"set_mode", "unset_mode"}, m \in UnknownModes :
        InertStep(ModeOp(which, m), Active)

InertNext ==
    \/ Input \/ SetMode \/ UnsetMode
    \/ UnimplementedHandler \/ UnsupportedAttribute
    \/ ClearScreenSaved \/ UnknownMode

SpecInert == Init /\ [][InertNext]_vars

\* C17: an unimplemented handler (a warn-only handler, an unsupported
\* attribute, clear_screen(Saved), an unknown mode) leaves both screens
\* (buffers, cursors, offsets, show_cursor) and the active screen's choice
\* unchanged and writes nothing to the pty.
C17_UnimplementedHandlersChangeNothing ==
    [][last'.op \in InertOps =>
         /\ main' = main /\ alternate' = alternate /\ mode' = mode
         /\ last'.written = NoBytes
         /\ UNCHANGED ptyVars]_vars

\* C17 witness: an unsupported attribute was given while the alternate
\* screen is active and both screens hold output.
C17_Witness ==
    /\ last.op = AttrOp("Dim") /\ mode = "Alternate"
    /\ HoldsPrintable(main) /\ HoldsPrintable(alternate)

---------------------------------------------------------------------------
(* Container::input for Terminal: the input event goes through a           *)
(* ScrollBehavior bound to four keys and then, if it is still there,       *)
(* through PassthroughBehavior.  A behavior of the unsegen input chain     *)
(* consumes the event when its operation returns Ok and passes it on when  *)
(* the operation returns Err or the key is not bound.                      *)

ScrollKeys == {"PageDown", "PageUp", "Home", "End"}
Keys == ScrollKeys \cup {"Char"}

\* the raw bytes of an input event (Input.raw)
RawBytes(key) == <<key>>

\* ScrollBehavior::new(self).forwards_on(PageDown).backwards_on(PageUp)
\*     .to_beginning_on(Home).to_end_on(End): the screen after the event,
\* the OperationResult ("none" for an unbound key) and whether the event is
\* passed on
scroll_behavior(t, key) ==
    LET r == CASE key = "PageDown" -> scroll_forwards(t)
               [] key = "PageUp"   -> scroll_backwards(t)
               [] key = "Home"     -> scroll_to_beginning(t)
               [] key = "End"      -> scroll_to_end(t)
               [] OTHER            -> [t |-> t, res |-> "none"]
    IN  [t |-> r.t, res |-> r.res, passed_on |-> r.res # "Ok"]

\* PassthroughBehavior::input, Terminal::process_input: the bytes written
\* to the pty master
process_input(key) == RawBytes(key)

KeyOp(key) == "key " \o key
KeyOps == {KeyOp(key) : key \in Keys}

\* Container::input for Terminal; write_ok is the outcome of write_all, on
\* whose failure `expect("Write to terminal")` panics
ContainerInput ==
    \E key \in Keys, write_ok \in BOOLEAN :
        LET r == scroll_behavior(Active, key)
        IN  /\ CanStep /\ Step /\ UNCHANGED mode
            /\ SetActive(r.t)
            /\ (~r.passed_on => write_ok)
            /\ last' = [Did(KeyOp(key),
                            IF write_ok THEN r.res ELSE "panic")
                           EXCEPT !.written = IF r.passed_on /\ write_ok
                                              THEN process_input(key)
                                              ELSE NoBytes]

KeysNext == Input \/ Linefeed \/ ContainerInput

SpecKeys == Init /\ [][KeysNext]_vars

\* C14: an input event with one of the keys PageUp, PageDown, Home, End
\* invokes the scroll operation bound to it and writes no byte to the pty,
\* whatever the scroll operation returns; an event with any other key
\* writes its raw bytes to the pty and leaves the scrollback offset as it
\* is (a failing write to the pty apart).
C14_ScrollKeysNeverReachThePty ==
    [][(last'.op \in KeyOps /\ last'.res # "panic") =>
         /\ \A key \in ScrollKeys :
                last'.op = KeyOp(key) =>
                    /\ Active' = scroll_behavior(Active, key).t
                    /\ last'.written = NoBytes
         /\ last'.op = KeyOp("Char") =>
                /\ last'.written = RawBytes("Char")
                /\ Active'.scrollback_position
                       = Active.scrollback_position]_vars

---------------------------------------------------------------------------
(* The cell lookups of the line buffer (impl CursorTarget for LineBuffer), *)
(* applied to a buffer of its own at positions drawn from -1..MaxCell.     *)

\* the outcome of a lookup: Some(cell), None, or a panic of an `expect`
Some(cell) == [res |-> "some", cell |-> cell]
NoCell == [res |-> "none", cell |-> DefaultCell]
LookupPanic == [res |-> "panic", cell |-> DefaultCell]

\* Line::get_cell
line_get_cell(line, x) ==
    IF x < 0 THEN NoCell
    ELSE IF x + 1 > Len(line) THEN LookupPanic
    ELSE Some(line[x + 1])

\* LineBuffer::get_cell
get_cell(lines, x, y) ==
    IF y < 0 THEN NoCell
    ELSE IF y + 1 > Len(lines) THEN LookupPanic
    ELSE line_get_cell(lines[y + 1], x)

\* LineBuffer::get_cell_mut: the outcome (the buffer becomes GrowFor)
get_cell_mut(lines, x, y) ==
    IF HasCell(x, y) THEN Some(GrowFor(lines, x, y)[y + 1][x + 1])
    ELSE NoCell

CellPositions == -1..MaxCell

\* a call of LineBuffer::get_cell_mut, through whose result the caller may
\* store a character
GetCellMut ==
    \E x \in CellPositions, y \in CellPositions, g \in Chars \cup {"keep"} :
        LET r == get_cell_mut(probe.lines, x, y)
            grown == GrowFor(probe.lines, x, y)
        IN  /\ probe.res # "panic"
            /\ probe' = [lines |-> IF g # "keep" /\ r.res = "some"
                                   THEN PutCell(grown, x, y,
                                                [r.cell EXCEPT !.g = g])
                                   ELSE grown,
                         op |-> "get_cell_mut", x |-> x, y |-> y,
                         res |-> r.res, cell |-> r.cell]
            /\ UNCHANGED <<screenVars, ptyVars>>

\* a call of LineBuffer::get_cell
GetCell ==
    \E x \in CellPositions, y \in CellPositions :
        LET r == get_cell(probe.lines, x, y)
        IN  /\ probe.res # "panic"
            /\ probe' = [probe EXCEPT !.op = "get_cell", !.x = x, !.y = y,
                                      !.res = r.res, !.cell = r.cell]
            /\ UNCHANGED <<screenVars, ptyVars>>

CellNext == GetCellMut \/ GetCell

SpecCell == Init /\ [][CellNext]_vars

\* C13: a lookup at a position with non-negative column and row, read-only
\* or mutable, returns a cell (the default cell where nothing was written)
\* and never aborts; a lookup at a negative column or row returns no cell.
C13_LookupNeverFails ==
    probe.op \in {"get_cell", "get_cell_mut"} =>
        IF probe.x >= 0 /\ probe.y >= 0
        THEN probe.res = "some"
        ELSE probe.res = "none"

---------------------------------------------------------------------------
(* Claims about the screen, checked under Spec.                            *)

\* the cursor state of a screen
CursorOf(t) == <<t.cx, t.cy, t.smod>>

\* C1: a scroll operation returns Err only if it leaves the scrollback
\* offset of the active screen unchanged, and Ok only if the displayed
\* position (current_scrollback_pos) changed.
C1_ScrollResultTellsEffect ==
    [][last'.op \in ScrollOps =>
         /\ last'.res = "Err" =>
               Active'.scrollback_position = Active.scrollback_position
         /\ last'.res = "Ok" =>
               current_scrollback_pos(Active')
                   # current_scrollback_pos(Active)]_vars

\* C2: a draw into a window of width > 0 and height > 0 that returns
\* leaves the active buffer (lines, cells, styles) and the cursor state as
\* they were before the draw.
C2_DrawKeepsBufferAndCursor ==
    [][(last'.op = "draw" /\ last'.res = "returned"
            /\ last'.w > 0 /\ last'.h > 0) =>
         /\ Active'.lines = Active.lines
         /\ CursorOf(Active') = CursorOf(Active)]_vars

\* C3: a draw into a window of width 0 or height 0, or on a screen whose
\* buffer has no lines, writes no cell and leaves the buffer unchanged,
\* whatever show_cursor is.
C3_DegenerateDrawIsNoOp ==
    [][(last'.op = "draw" /\ last'.res = "returned"
            /\ (last'.w = 0 \/ last'.h = 0 \/ Active.lines = <<>>)) =>
         /\ last'.cells = {}
         /\ Active'.lines = Active.lines]_vars

\* C8: a draw whose window-size ioctl fails still renders and returns
\* normally.
C8_IoctlFailureDoesNotAbort ==
    (last.op = "draw" /\ ~last.ioctl_ok) => last.res = "returned"

\* C9 as stated: a draw whose window size differs from the stored size of
\* the active screen issues exactly one ioctl with cols = xpixels = W.width
\* and rows = ypixels = W.height and stores W's size; a draw with an equal
\* size issues none.
C9_IoctlCarriesWindowSize ==
    [][last'.op = "draw" =>
         IF last'.w # Active.window_width \/ last'.h # Active.window_height
         THEN /\ last'.ioctl = <<winsize(last'.w, last'.h, last'.w, last'.h)>>
              /\ Active'.window_width = last'.w
              /\ Active'.window_height = last'.h
         ELSE last'.ioctl = <<>>]_vars

\* C9 amended: as C9, but the ioctl carries each dimension modulo 2^16
\* (cols = xpixels = W.width mod 65536, rows = ypixels = W.height mod
\* 65536); the stored width and height become W's untruncated.
C9_IoctlCarriesTruncatedSize ==
    [][last'.op = "draw" =>
         IF last'.w # Active.window_width \/ last'.h # Active.window_height
         THEN /\ last'.ioctl = <<winsize(last'.w % U16, last'.h % U16,
                                         last'.w % U16, last'.h % U16)>>
              /\ Active'.window_width = last'.w
              /\ Active'.window_height = last'.h
         ELSE /\ last'.ioctl = <<>>
              /\ Active'.window_width = Active.window_width
              /\ Active'.window_height = Active.window_height]_vars

\* C9 witness: a draw of a window wider than 2^16 - 1 columns whose height
\* equals the stored one has issued its single ioctl and returned.
C9_Witness ==
    /\ last.op = "draw" /\ last.res = "returned"
    /\ Len(last.ioctl) = 1
    /\ last.w >= U16
    /\ Active.window_width = last.w
    /\ steps >= 2

\* C10: while the alternate screen is active no operation changes the
\* primary screen (buffer, cursor, offset, size, cursor style, show_cursor),
\* and unset_mode(SwapScreenAndSetRestoreCursor) makes that unchanged
\* primary the active screen.
C10_PrimaryUntouchedWhileAlternate ==
    [][mode = "Alternate" =>
         /\ main' = main
         /\ last'.op = "unset_mode SwapScreen" => mode' = "Main"]_vars

\* C10 witness: back on a non-empty primary after output on the alternate.
C10_Witness ==
    /\ mode = "Main" /\ last.op = "unset_mode SwapScreen"
    /\ main.lines # <<>> /\ alternate.lines # <<>>

---------------------------------------------------------------------------
(* Claims about the pty bridge and the reader task, checked under SpecPty. *)

\* C4: once a read has returned an error or 0 bytes the reader task is
\* over: it has left the loop, it issues no further read and it hands no
\* further chunk to the sink.
C4_ReaderEndsAtErrorOrEof ==
    rd.ended => /\ rd.pc = "done"
                /\ ~rd.read_after_end
                /\ ~rd.chunk_after_end

\* the reader thread can take a step without the host or the child acting
ReaderRuns ==
    \/ rd.pc \in {"acquire", "locked", "deliver"}
    \/ rd.pc = "read" /\ ReadCanReturn

\* C5: once the widget is dropped the master fd gets closed and the reader
\* task exits without any further action of the host or the child: as long
\* as the child has not acted since the drop, the reader is over and the fd
\* closed, or the reader is on its way there.
C5_DropClosesMasterAndEndsReader ==
    (host.widget = "dropped" /\ ~env.late) =>
        \/ pty.fd = "closed" /\ rd.pc = "done"
        \/ ReaderRuns

\* C6: the master fd is closed at most once, it is closed exactly when
\* both handles have been released, and no read, write or ioctl is issued
\* on it after the close.
C6_ClosedOnceAtLastRelease ==
    /\ pty.closes <= 1
    /\ pty.fd = "closed" <=> pty.closes = 1
    /\ pty.input # "none" =>
          (pty.fd = "closed" <=>
              (pty.input = "released" /\ pty.output = "released"))
    /\ ~pty.after_close

\* C6 witness: the widget wrote and was dropped, the reader delivered and
\* left, and the fd is closed.
C6_Witness ==
    /\ pty.fd = "closed" /\ pty.closes = 1
    /\ host.widget = "dropped" /\ host.ops > 0
    /\ rd.pc = "done" /\ Len(sink) > 0

RECURSIVE Flatten(_)
\* the concatenation of a sequence of chunks
Flatten(chunks) ==
    IF chunks = <<>> THEN <<>>
    ELSE Head(chunks) \o Flatten(Tail(chunks))

\* the chunk the reader has read and not yet handed to the sink
InFlight == IF rd.pc = "deliver" THEN <<rd.chunk>> ELSE <<>>

\* C18: the chunks handed to the sink are, in order and one for one, the
\* results of the reader's successful reads (the last one may be on its
\* way), each at most 1024 bytes long; their concatenation, followed by what
\* the master still holds, is the bytes the child wrote in the order it
\* wrote them: no byte is dropped, duplicated or reordered.
C18_ChunksAreTheReadsInOrder ==
    /\ sink \o InFlight = rd.reads
    /\ \A i \in 1..Len(sink) : Len(sink[i]) <= ReadBufLen
    /\ Flatten(sink \o InFlight) \o env.kbuf = [i \in 1..env.written |-> i]

\* C18 witness: a write larger than the read buffer has reached the sink
\* in several chunks, one of them a full buffer.
C18_Witness ==
    /\ Len(sink) >= 2 /\ InFlight = <<>> /\ env.kbuf = <<>>
    /\ env.written > ReadBufLen
    /\ \E i \in 1..Len(sink) : Len(sink[i]) = ReadBufLen

\* C25 as stated: every read, write and window-size ioctl on the master
\* fd is executed while the mutex is held by the thread that issues it, so
\* a read of the reader never overlaps a write or an ioctl of the host.
C25_SyscallsInsideCriticalSection ==
    /\ rd.pc = "read" => pty.lock = "reader"
    /\ host.pc = "write_sys" => pty.lock = "host"
    /\ host.pc = "resize_locked" => pty.lock = "host"
    /\ ~(rd.pc = "read" /\ host.pc \in {"write_sys", "resize_locked"})

\* C25 amended: every read, write and window-size ioctl on the master fd
\* is preceded by the calling thread taking the mutex; the ioctl is
\* executed with the mutex held, a read or a write is entered with the
\* mutex released again.
C25_MutexTakenBeforeEverySyscall ==
    [][/\ (rd.pc # "read" /\ rd'.pc = "read") =>
              (pty.lock = "reader" /\ pty'.lock = "free")
       /\ (host.pc # "write_sys" /\ host'.pc = "write_sys") =>
              (pty.lock = "host" /\ pty'.lock = "free")
       /\ (host.pc = "resize_locked" /\ host'.pc # "resize_locked") =>
              (pty.lock = "host" /\ pty'.lock = "host")]_vars

\* C25 witness: the reader is inside read while the host thread holds the
\* mutex for its window-size ioctl.
C25_Witness ==
    /\ rd.pc = "read" /\ pty.fd = "open"
    /\ host.pc = "resize_locked" /\ pty.lock = "host"

\* C26: the reader never holds the mutex while it is in read, so a host
\* thread that wants to write or resize finds the mutex free and none of
\* its steps waits for the read to return.
C26_BlockedReadHoldsNoMutex ==
    rd.pc = "read" =>
        /\ pty.lock # "reader"
        /\ HostIdle => pty.lock = "free"

\* C26 witness: with the reader blocked in a read that cannot return, the
\* host thread has passed the mutex and is about to write, or has done its
\* ioctl.
C26_Witness ==
    /\ rd.pc = "read" /\ ~ReadCanReturn /\ pty.fd = "open"
    /\ host.pc \in {"write_sys", "resize_unlock"}

\* C7: when opening the pty master fails, Terminal::new returns an error
\* value (it does not panic) and no widget exists.
C7_OpenFailureIsReturned ==
    host.open_fail # "none" =>
        host.new_res = "err" /\ host.widget = "none"

\* C31: when Terminal::new has not returned a widget (it panicked or
\* returned an error), nothing it created stays alive: the master fd is not
\* open and there is no reader task, or the reader task is on its way out
\* without the host or the child acting.
C31_FailedNewLeavesNothingAlive ==
    host.new_res \in {"panic", "err"} =>
        \/ pty.fd # "open" /\ rd.pc \in {"none", "done"}
        \/ ReaderRuns

---------------------------------------------------------------------------
(* Claims about the line counts of the two buffers, checked under Spec.    *)

\* C11 as stated: once a printable character has been written to a screen
\* (one of the two buffers holds it), the active buffer has at least one
\* line, also after a switch between the screens.
C11_ActiveBufferNonEmptyAfterOutput ==
    (HoldsPrintable(main) \/ HoldsPrintable(alternate)) =>
        Len(Active.lines) >= 1

\* C11 amended: an input of a printable character at a cursor position with
\* non-negative column and row leaves the screen it was written to with at
\* least one line, and a screen that has a line keeps having one, whichever
\* screen is active.
C11_WrittenScreenKeepsALine ==
    [][/\ (last'.op = "input" /\ HasCell(Active.cx, Active.cy)) =>
              Len(Active'.lines) >= 1
       /\ Len(main.lines) >= 1 => Len(main'.lines) >= 1
       /\ Len(alternate.lines) >= 1 => Len(alternate'.lines) >= 1]_vars

\* C11 witness: characters were written to both screens across a switch.
C11_Witness ==
    /\ last.op = "input" /\ mode = "Alternate"
    /\ HoldsPrintable(main) /\ HoldsPrintable(alternate)

\* C12: no operation decreases the number of lines of the primary buffer
\* or of the alternate buffer.
C12_LineCountsNeverDecrease ==
    [][/\ Len(main'.lines) >= Len(main.lines)
       /\ Len(alternate'.lines) >= Len(alternate.lines)]_vars

\* C12 witness: clear_screen has emptied the last line of a buffer that
\* still has its lines.
C12_Witness ==
    /\ last.op = "clear_screen"
    /\ Active.window_height >= 1
    /\ Len(Active.lines) >= 1
    /\ Active.lines[Len(Active.lines)] = <<>>
    /\ steps >= 3

---------------------------------------------------------------------------
(* Claims about what draw shows, checked under Spec.  The displayed rows   *)
(* of a buffer are its lines cut into pieces of the window width, an empty *)
(* line giving one empty row.                                              *)

\* the displayed rows of one line
LineRows(line, width) ==
    [j \in 1..height_for_width(Len(line), width) |->
        SubSeq(line, (j - 1) * width + 1, Min(Len(line), j * width))]

RECURSIVE DisplayedRows(_, _, _)
\* the displayed rows of lines[from..], top to bottom
DisplayedRows(lines, from, width) ==
    IF from > Len(lines) THEN <<>>
    ELSE LineRows(lines[from], width)
         \o DisplayedRows(lines, from + 1, width)

\* the cells of rows[first + 1 .. first + count] shown in the window rows
\* at, at + 1, ..
CellsOfRows(rows, first, count, at) ==
    UNION { { [r |-> at + i - 1, c |-> k - 1, cell |-> rows[first + i][k]] :
                k \in 1..Len(rows[first + i]) } : i \in 1..count }

\* the buffer of screen t with the cursor cell, if the buffer has it and
\* the cursor is shown, in the cursor's style
Highlighted(t) ==
    IF /\ t.show_cursor /\ HasCell(t.cx, t.cy)
       /\ t.cy + 1 <= Len(t.lines)
       /\ t.cx + 1 <= Len(t.lines[t.cy + 1])
    THEN toggle_cursor_cell(t).lines
    ELSE t.lines

\* C15: in tail viewing, when the active buffer has at least h displayed
\* rows at the window width (h > 0 the window height), draw writes exactly
\* the last h displayed rows of the buffer to the window rows 0..h-1, in
\* order.
C15_TailShowsLastRows ==
    [][LET rows == DisplayedRows(Highlighted(Active), 1, last'.w)
       IN  (/\ last'.op = "draw" /\ last'.res = "returned"
            /\ last'.w > 0 /\ last'.h > 0
            /\ Active.scrollback_position = None
            /\ Len(rows) >= last'.h) =>
               last'.cells
                   = CellsOfRows(rows, Len(rows) - last'.h, last'.h, 0)]_vars

\* C16 as stated: in tail viewing, when the active buffer has displayed
\* rows, but fewer than the window has rows, draw puts the buffer's last
\* displayed row into the window's last row and leaves the window rows
\* above the buffer's first row unchanged.
C16_ShortBufferEndsAtLastRow ==
    [][LET rows == DisplayedRows(Highlighted(Active), 1, last'.w)
       IN  (/\ last'.op = "draw" /\ last'.res = "returned"
            /\ last'.w > 0
            /\ Active.scrollback_position = None
            /\ Len(rows) >= 1 /\ Len(rows) < last'.h) =>
               last'.cells
                   = CellsOfRows(rows, 0, Len(rows),
                                 last'.h - Len(rows))]_vars

\* C16 amended: in tail viewing, when the active buffer as draw leaves it
\* (with the cell draw creates under a shown cursor) has fewer displayed
\* rows than the window has rows, draw puts the buffer's first displayed
\* row into the window's first row and the others below it in order, and
\* leaves the window rows below the buffer's last row unchanged.
C16_ShortBufferStartsAtFirstRow ==
    [][LET rows == DisplayedRows(Highlighted(Active'), 1, last'.w)
       IN  (/\ last'.op = "draw" /\ last'.res = "returned"
            /\ last'.w > 0
            /\ Active'.scrollback_position = None
            /\ Len(rows) < last'.h) =>
               last'.cells = CellsOfRows(rows, 0, Len(rows), 0)]_vars

\* C16 witness: a draw of a one-row buffer holding a character into a
\* window of more rows has written its cells.
C16_Witness ==
    /\ last.op = "draw" /\ last.res = "returned"
    /\ last.w > 0 /\ last.h >= 2
    /\ Active.scrollback_position = None
    /\ Len(Active.lines) = 1 /\ HoldsPrintable(Active)
    /\ Len(Active.lines[1]) <= last.w
    /\ last.cells # {}

\* C19: scroll_backwards followed by scroll_to_end, whatever either call
\* returns, leaves the active screen in tail viewing (no scrollback
\* offset).
C19_BackwardsThenToEndIsTail ==
    [][(last.op = "scroll_backwards" /\ last'.op = "scroll_to_end") =>
         Active'.scrollback_position = None]_vars

\* C19 witness: scroll_to_end, called directly after scroll_backwards, has
\* cleared the offset in a buffer higher than the window.
C19_Witness ==
    /\ last.op = "scroll_to_end" /\ last.res = "Ok"
    /\ last.after = "scroll_backwards"
    /\ Active.scrollback_position = None
    /\ height_as_displayed(Active) > Active.window_height

\* C20: with current = the scrollback offset if set and otherwise the
\* displayed height H of the buffer, scroll_forwards sets the offset to
\* current + step and returns Ok if current + step < H; otherwise it
\* clears the offset and returns Err, also when the offset was set before
\* the call.
C20_ScrollForwardsStepsOrSnaps ==
    [][last'.op = "scroll_forwards" =>
         LET offset  == Active.scrollback_position
             H       == SumHeights(Active.lines, 1, Active.window_width)
             current == IF offset # None THEN offset ELSE H
         IN  IF current + ScrollStep < H
             THEN /\ Active'.scrollback_position = current + ScrollStep
                  /\ last'.res = "Ok"
             ELSE /\ Active'.scrollback_position = None
                  /\ last'.res = "Err"]_vars

\* C20 witness: scroll_forwards has moved a scrolled viewport one step
\* towards the tail and returned Ok.
C20_Witness ==
    /\ last.op = "scroll_forwards" /\ last.res = "Ok"
    /\ Active.scrollback_position # None
    /\ Active.scrollback_position < height_as_displayed(Active)

---------------------------------------------------------------------------
(* Scrolling in a screen that already holds output and has been drawn.     *)
(* The screens below are left by a draw into a w x h window followed by    *)
(* inputs of a, b, a (after a linefeed and a carriage return for the       *)
(* second line) and a carriage return, with the cursor shown or hidden;    *)
(* the operations are counted from there.                                  *)

\* the cells of a line after the inputs a, b, a, ..
ScrollLine(n) ==
    [k \in 1..n |-> [g |-> IF k % 2 = 1 THEN "a" ELSE "b",
                     style |-> DefaultStyle]]

ScrollBuffers == {<<ScrollLine(3)>>, <<ScrollLine(1), ScrollLine(3)>>}

\* the screen that holds `lines` in a window of width w and height h
ScrollScreen(lines, w, h, show) ==
    [NewTerminalWindow EXCEPT !.lines = lines, !.window_width = w,
                              !.window_height = h, !.cx = 0,
                              !.cy = Len(lines) - 1, !.show_cursor = show]

ScrollInit ==
    /\ \E lines \in ScrollBuffers, w \in {1, 2}, h \in {1, 2},
          show \in BOOLEAN :
            main = ScrollScreen(lines, w, h, show)
    /\ alternate = NewTerminalWindow
    /\ mode = "Main"
    /\ last = Did("carriage_return", "none")
    /\ steps = 0
    /\ PtyInit /\ ProbeInit

ScrollNext ==
    \/ ScrollForwards \/ ScrollBackwards \/ ScrollToBeginning \/ ScrollToEnd
    \/ Draw

SpecScroll == ScrollInit /\ [][ScrollNext]_vars

\* C21: with current = the scrollback offset if set and otherwise the
\* displayed height H, scroll_backwards sets the offset to
\* max(0, current - step) and returns Ok if current > window height, and
\* otherwise leaves the offset and returns Err; it returns Err whenever the
\* whole buffer fits in the window.
C21_ScrollBackwardsStepsOrFails ==
    [][last'.op = "scroll_backwards" =>
         LET offset  == Active.scrollback_position
             H       == SumHeights(Active.lines, 1, Active.window_width)
             current == IF offset # None THEN offset ELSE H
         IN  /\ IF current > Active.window_height
                THEN /\ Active'.scrollback_position
                            = Max(0, current - ScrollStep)
                     /\ last'.res = "Ok"
                ELSE /\ Active'.scrollback_position = offset
                     /\ last'.res = "Err"
             /\ H <= Active.window_height => last'.res = "Err"]_vars

\* C22: with current = the scrollback offset if set and otherwise the
\* displayed height H, scroll_to_beginning sets the offset to exactly the
\* window height and returns Ok if current > window height, and otherwise
\* leaves the offset and returns Err; a scroll_to_beginning directly after
\* one that returned Ok returns Err.
C22_ScrollToBeginningSetsHeight ==
    [][last'.op = "scroll_to_beginning" =>
         LET offset  == Active.scrollback_position
             H       == SumHeights(Active.lines, 1, Active.window_width)
             current == IF offset # None THEN offset ELSE H
         IN  /\ IF current > Active.window_height
                THEN /\ Active'.scrollback_position = Active.window_height
                     /\ last'.res = "Ok"
                ELSE /\ Active'.scrollback_position = offset
                     /\ last'.res = "Err"
             /\ (last.op = "scroll_to_beginning" /\ last.res = "Ok") =>
                    last'.res = "Err"]_vars

\* C22 witness: a second scroll_to_beginning, directly after the one that
\* moved the view of a drawn buffer to its top, has returned Err.
C22_Witness ==
    /\ last.op = "scroll_to_beginning" /\ last.res = "Err"
    /\ last.after = "scroll_to_beginning"
    /\ Active.window_height > 0
    /\ Active.scrollback_position = Active.window_height
    /\ height_as_displayed(Active) > Active.window_height

\* C23: when the scrollback offset is p, with h <= p <= H for the window
\* height h > 0 and the displayed height H of the active buffer at the
\* window width > 0, draw writes exactly the displayed rows p-h .. p-1 of
\* the buffer to the window rows 0 .. h-1, wrapped lines included.
C23_ScrolledViewShowsRowsBeforeOffset ==
    [][LET rows == DisplayedRows(Highlighted(Active), 1, last'.w)
           p    == Active.scrollback_position
       IN  (/\ last'.op = "draw" /\ last'.res = "returned"
            /\ last'.w > 0 /\ last'.h > 0
            /\ p # None /\ last'.h <= p /\ p <= Len(rows)) =>
               last'.cells
                   = CellsOfRows(rows, p - last'.h, last'.h, 0)]_vars

\* C24 as stated: linefeed moves the cursor to the next row, makes that row
\* exist in the buffer and leaves the cursor column unchanged, wherever
\* the cursor is.
C24_LinefeedKeepsColumn ==
    [][last'.op = "linefeed" =>
         /\ Active'.cy = Active.cy + 1
         /\ Len(Active'.lines) >= Active'.cy + 1
         /\ Active'.cx = Active.cx]_vars

\* C24 amended: linefeed moves the cursor to the next row, makes that row
\* exist in the buffer when its index is not negative, and puts the
\* cursor into column 0, wherever the cursor is.
C24_LinefeedGoesToLineStart ==
    [][last'.op = "linefeed" =>
         /\ Active'.cy = Active.cy + 1
         /\ Active'.cy >= 0 => Len(Active'.lines) >= Active'.cy + 1
         /\ Active'.cx = 0]_vars

\* C24 witness: a linefeed after an input has left the cursor in column 0
\* of a new last row, below the row that holds the character.
C24_Witness ==
    /\ last.op = "linefeed"
    /\ Active.cx = 0 /\ Active.cy >= 1
    /\ Len(Active.lines) = Active.cy + 1
    /\ \E k \in 1..Len(Active.lines[Active.cy]) :
           Active.lines[Active.cy][k].g \in Chars

---------------------------------------------------------------------------
(* Cursor addressing in a screen that holds output and has been drawn.     *)

GotoNext == Input \/ Linefeed \/ Goto \/ GotoLine \/ GotoCol

SpecGoto == ScrollInit /\ [][GotoNext]_vars

\* C27: goto(line, col) puts the cursor into row max(0, len - height) +
\* line, for the number len of lines of the active buffer at the call and
\* the stored window height, and into column col; goto_line sets only the
\* row and goto_col only the column, by the same mapping; none of them
\* changes the buffer.
C27_GotoMapsIntoVisibleRegion ==
    [][LET top == Max(0, Len(Active.lines) - Active.window_height)
       IN  /\ last'.op = "goto" =>
                /\ Active'.cy = top + last'.args[1]
                /\ Active'.cx = last'.args[2]
                /\ Active'.lines = Active.lines
           /\ last'.op = "goto_line" =>
                /\ Active'.cy = top + last'.args[1]
                /\ Active'.cx = Active.cx
                /\ Active'.lines = Active.lines
           /\ last'.op = "goto_col" =>
                /\ Active'.cx = last'.args[1]
                /\ Active'.cy = Active.cy
                /\ Active'.lines = Active.lines]_vars

\* C27 witness: a goto_line in a buffer with more lines than the window
\* has rows has put the cursor below the first visible line, in the column
\* it was in after an input.
C27_Witness ==
    /\ last.op = "goto_line" /\ last.args = <<MaxLine>>
    /\ Len(Active.lines) > Active.window_height
    /\ Active.window_height > 0
    /\ Active.cy = Len(Active.lines) - Active.window_height + MaxLine
    /\ Active.cx > 0

\* C33: linefeed changes no cell that exists: every cell of the active
\* buffer has after a linefeed the grapheme and the style it had before.
C33_LinefeedKeepsExistingCells ==
    [][last'.op = "linefeed" =>
           \A y \in 1..Len(Active.lines) :
               \A x \in 1..Len(Active.lines[y]) :
                   /\ y <= Len(Active'.lines)
                   /\ x <= Len(Active'.lines[y])
                   /\ Active'.lines[y][x] = Active.lines[y][x]]_vars

---------------------------------------------------------------------------
(* Clearing in a screen that holds output and has been drawn.              *)

ClearNext ==
    \/ Input \/ Goto \/ MoveUp
    \/ ClearScreen \/ ClearScreenAbove \/ ClearScreenBelow

SpecClear == ScrollInit /\ [][ClearNext]_vars

\* line i (0-based) of a buffer, a missing line counting as empty
LineAt(lines, i) == IF i >= 0 /\ i < Len(lines) THEN lines[i + 1] ELSE <<>>

\* the cells of `line` in the columns from .. to-1 are blanks
BlankIn(line, from, to) ==
    \A x \in Max(0, from)..(Min(to, Len(line)) - 1) : line[x + 1].g = " "

\* `line` has the cells of `old` in the columns from .. to-1
SameIn(line, old, from, to) ==
    \A x \in Max(0, from)..(Min(to, Len(old)) - 1) :
        x < Len(line) /\ line[x + 1] = old[x + 1]

\* C28: clear_screen never aborts and, with len the number of lines when
\* the lines are emptied and height the stored window height: All empties
\* the lines [max(0, len - height), len) and changes no other; Above
\* blanks the current line left of the cursor, empties the lines
\* [max(0, len - height), cursor row) and changes nothing else; Below
\* blanks the current line from the cursor on, empties the lines below the
\* cursor row and changes nothing else.
C28_ClearScreenEmptiesItsLines ==
    [][LET old == Active.lines
           new == Active'.lines
           cx  == Active.cx
           cy  == Active.cy
           top == Max(0, Len(new) - Active.window_height)
           Others(emptied(_)) ==
               \A i \in 0..(Len(new) - 1) :
                   i # cy => new[i + 1] = IF emptied(i) THEN <<>>
                                          ELSE LineAt(old, i)
           InAbove(i) == top <= i /\ i < cy
           InBelow(i) == i > cy
           InAll(i) == top <= i
       IN  /\ last'.op \in {"clear_screen", "clear_screen Above",
                            "clear_screen Below"} =>
                 /\ last'.res = "none" /\ Len(new) >= Len(old)
                 /\ <<Active'.cx, Active'.cy>> = <<cx, cy>>
           /\ last'.op = "clear_screen" =>
                 /\ Len(new) = Len(old)
                 /\ \A i \in 0..(Len(new) - 1) :
                        new[i + 1] = IF InAll(i) THEN <<>> ELSE old[i + 1]
           /\ last'.op = "clear_screen Above" =>
                 /\ Others(InAbove)
                 /\ BlankIn(LineAt(new, cy), 0, cx)
                 /\ SameIn(LineAt(new, cy), LineAt(old, cy), cx,
                           Len(LineAt(old, cy)))
           /\ last'.op = "clear_screen Below" =>
                 /\ Others(InBelow)
                 /\ BlankIn(LineAt(new, cy), cx, Len(LineAt(new, cy)))
                 /\ SameIn(LineAt(new, cy), LineAt(old, cy), 0, cx)]_vars

\* C32: clear_screen in any mode changes no line of the scrollback: the
\* lines with an index below max(0, len - height), len the number of lines
\* and height the stored window height when it is called, are after the
\* call what they were before, wherever the cursor is.
C32_ClearScreenKeepsScrollback ==
    [][last'.op \in {"clear_screen", "clear_screen Above",
                     "clear_screen Below"} =>
           \A i \in 0..(Max(0, Len(Active.lines) - Active.window_height) - 1) :
               LineAt(Active'.lines, i) = LineAt(Active.lines, i)]_vars

---------------------------------------------------------------------------
(* The scrollback offset and the buffer it points into.                    *)

\* C29: a set scrollback offset p of a screen satisfies
\* window_height <= p < H, H the displayed height of the screen's buffer
\* at its stored width, in every reachable state.
C29_SetOffsetWithinBuffer ==
    \A t \in {main, alternate} :
        t.scrollback_position # None =>
            /\ t.window_height <= t.scrollback_position
            /\ t.scrollback_position < height_as_displayed(t)

---------------------------------------------------------------------------
(* The window size the child is told about.                                *)

\* the last operation was a draw, or a switch of screens right after one
FollowsDraw ==
    \/ last.op = "draw"
    \/ /\ last.op \in {"set_mode SwapScreen", "unset_mode SwapScreen"}
       /\ last.after = "draw"

\* C30: a draw into a window of the size of the previous draw issues no
\* window-size ioctl, also when the screen was switched in between.
C30_SameSizeDrawIssuesNoIoctl ==
    [][(/\ FollowsDraw
        /\ last'.op = "draw"
        /\ <<last'.w, last'.h>> = <<last.w, last.h>>)
           => last'.ioctl = NoIoctl]_vars

\* C34: an operation other than the four scroll operations leaves the
\* scrollback offset of both screens as it is: a viewport scrolled back to
\* an offset keeps it, a viewport at the tail stays at the tail.
C34_OnlyScrollOpsChangeOffset ==
    [][last'.op \notin ScrollOps =>
           /\ main'.scrollback_position = main.scrollback_position
           /\ alternate'.scrollback_position = alternate.scrollback_position]_vars

\* C34 witness: output was written to a screen whose viewport is scrolled
\* back, and extended its buffer beyond the offset.
C34_Witness ==
    /\ last.op \in {"input", "linefeed"}
    /\ Active.scrollback_position # None
    /\ height_as_displayed(Active) > Active.scrollback_position + 1


=============================================================================
